---- MODULE Spec2Model ----
(***************************************************************************)
(* Model of package vectormodel (jbochi/facts): construction of the item   *)
(* factor matrix Y and its Gram matrix YtY, the per-request solve of the   *)
(* user vector, and the scoring and ordering done by Rank and Recommend.   *)
(*                                                                         *)
(* Arithmetic is exact: a float64 is modelled by a rational number, kept   *)
(* in lowest terms so that equal values are equal records.  Factor values, *)
(* confidence and regularization are drawn from small sets of integers.    *)
(* Go slices and matrix rows are 0-based; here they are 1-based, so row    *)
(* index i of the code is row i+1 of the model.                            *)
(***************************************************************************)
EXTENDS Integers, Sequences, FiniteSets, TLC

VARIABLES pc, documents, order, confidence, regularization, vm, op, seenDocs,
          n, candidatesIn, candidates, scores, recommendations, err, uv,
          confidenceMapIn, orderB, vmB, recommendationsB, errB

vars == <<pc, documents, order, confidence, regularization, vm, op, seenDocs,
          n, candidatesIn, candidates, scores, recommendations, err, uv,
          confidenceMapIn, orderB, vmB, recommendationsB, errB>>

inputs == <<documents, order, orderB, confidence, regularization>>

second == <<vmB, recommendationsB, errB>>

(***************************************************************************)
(* Bounds of the model.                                                    *)
(***************************************************************************)
MaxDocID == 2

MaxCandidates == 2

DocIDs == 1 .. MaxDocID

Vectors == {<<1>>, <<-2>>, <<1, 1>>, <<-2, 1>>}

Confidences == {1, 6}

Regularizations == {0, 1}

Ns == -1 .. (MaxDocID + 1)

CandidateLists == UNION {[1 .. k -> DocIDs] : k \in 0 .. MaxCandidates}

Nil == "nil"

NoModel == << >>

NoSlice == << >>

NoVec == [A |-> << >>, b |-> << >>, err |-> Nil, x |-> [num |-> << >>, den |-> 1]]

(***************************************************************************)
(* float64 values as rationals in lowest terms, den > 0.                   *)
(***************************************************************************)
RECURSIVE GCD(_, _)
GCD(a, b) == IF b = 0 THEN a ELSE GCD(b, a % b)

Abs(a) == IF a < 0 THEN -a ELSE a

Rat(num, den) ==
    LET g == GCD(Abs(num), den)
    IN  [num |-> num \div g, den |-> den \div g]

RatLess(a, b) == a.num * b.den < b.num * a.den

RatLeq(a, b) == a.num * b.den <= b.num * a.den

RECURSIVE SumSeq(_)
SumSeq(s) == IF s = <<>> THEN 0 ELSE Head(s) + SumSeq(Tail(s))

Dot(u, v) == SumSeq([k \in 1 .. Len(u) |-> u[k] * v[k]])

(***************************************************************************)
(* Dense matrices: a matrix is a sequence of rows.                         *)
(***************************************************************************)
NewDense(r, c, data) ==
    [i \in 1 .. r |-> [j \in 1 .. c |-> data[(i - 1) * c + j]]]

MulTranspose(Y, f) ==
    [i \in 1 .. f |-> [j \in 1 .. f |->
        SumSeq([r \in 1 .. Len(Y) |-> Y[r][i] * Y[r][j]])]]

eye(k, value) ==
    [i \in 1 .. k |-> [j \in 1 .. k |-> IF i = j THEN value ELSE 0]]

MatAdd(P, Q) ==
    [i \in 1 .. Len(P) |-> [j \in 1 .. Len(P[i]) |-> P[i][j] + Q[i][j]]]

Outer(u, v) == [i \in 1 .. Len(u) |-> [j \in 1 .. Len(v) |-> u[i] * v[j]]]

MatScale(s, P) ==
    [i \in 1 .. Len(P) |-> [j \in 1 .. Len(P[i]) |-> s * P[i][j]]]

Minor(M, j) ==
    [r \in 1 .. Len(M) - 1 |-> [c \in 1 .. Len(M) - 1 |->
        M[r + 1][IF c < j THEN c ELSE c + 1]]]

RECURSIVE Det(_)
Det(M) ==
    IF Len(M) = 0 THEN 1
    ELSE IF Len(M) = 1 THEN M[1][1]
    ELSE SumSeq([j \in 1 .. Len(M) |->
            (IF j % 2 = 1 THEN 1 ELSE -1) * M[1][j] * Det(Minor(M, j))])

Leading(M, k) == [i \in 1 .. k |-> [j \in 1 .. k |-> M[i][j]]]

ReplaceCol(M, k, v) ==
    [i \in 1 .. Len(M) |-> [j \in 1 .. Len(M) |-> IF j = k THEN v[i] ELSE M[i][j]]]

(***************************************************************************)
(* NewVectorModel.  `documents` is the input map and `order` the order in  *)
(* which `range documents` visits its keys.                                *)
(***************************************************************************)
ErrInvalidVectorSize == "Invalid vector size"

ErrNoSeenDoc == "No seen doc is in model"

ErrCholesky == "Failed to run Cholesky factorization"

ErrSliceBounds == "panic: slice bounds out of range"

Orders(S) ==
    {s \in [1 .. Cardinality(S) -> S] : \A i, j \in DOMAIN s : i # j => s[i] # s[j]}

\* Mutant: only a vector shorter than the first one is rejected.
invalidVectorSizeShorterOnly(i, vector, nFactors) == i # 0 /\ Len(vector) < nFactors

invalidVectorSize(i, vector, nFactors) == i # 0 /\ Len(vector) # nFactors

\* Mutant: every item is indexed at the first row.
rowIndexFirst(doc, i) == 1

rowIndex(doc, i) == i + 1

RECURSIVE newVectorModelLoop(_, _, _, _)
newVectorModelLoop(docs, ord, i, st) ==
    IF i = Len(ord) THEN [err |-> Nil, st |-> st]
    ELSE LET doc == ord[i + 1]
             vector == docs[doc]
             nf == IF i = 0 THEN Len(vector) ELSE st.nFactors
         IN  IF invalidVectorSize(i, vector, st.nFactors)
             THEN [err |-> ErrInvalidVectorSize, st |-> st]
             ELSE newVectorModelLoop(docs, ord, i + 1,
                    [nFactors |-> nf,
                     docIndexes |-> [d \in DOMAIN st.docIndexes \cup {doc} |->
                                        IF d = doc THEN rowIndex(doc, i)
                                        ELSE st.docIndexes[d]],
                     docIDs |-> [st.docIDs EXCEPT ![i + 1] = doc],
                     data |-> st.data \o vector])

NewVectorModel(docs, ord, conf, reg) ==
    LET r == newVectorModelLoop(docs, ord, 0,
                [nFactors |-> 0,
                 docIndexes |-> << >>,
                 docIDs |-> [k \in 1 .. Cardinality(DOMAIN docs) |-> 0],
                 data |-> << >>])
    IN  IF r.err # Nil THEN [err |-> r.err, vm |-> NoModel]
        ELSE LET Y == NewDense(Cardinality(DOMAIN docs), r.st.nFactors, r.st.data)
             IN  [err |-> Nil,
                  vm |-> [confidence |-> conf,
                          regularization |-> reg,
                          docIDs |-> r.st.docIDs,
                          docIndexes |-> r.st.docIndexes,
                          nFactors |-> r.st.nFactors,
                          itemFactorsY |-> Y,
                          squaredItemFactorsYtY |-> MulTranspose(Y, r.st.nFactors)]]

(***************************************************************************)
(* The user-vector solve.                                                  *)
(***************************************************************************)
\* Mutant: seen items are not filtered by membership in the model.
confidenceMapUnfiltered(m, seen) == [doc \in seen |-> m.confidence]

confidenceMap(m, seen) ==
    [doc \in {d \in seen : d \in DOMAIN m.docIndexes} |-> m.confidence]

\* Mutant: the rank-one update is weighted by confidence, not confidence - 1.
accumulateFullConfidence(acc, conf, factor) ==
    [A |-> MatAdd(acc.A, MatScale(conf, Outer(factor, factor))),
     b |-> [k \in 1 .. Len(acc.b) |-> acc.b[k] + conf * factor[k]]]

accumulate(acc, conf, factor) ==
    [A |-> MatAdd(acc.A, MatScale(conf - 1, Outer(factor, factor))),
     b |-> [k \in 1 .. Len(acc.b) |-> acc.b[k] + conf * factor[k]]]

RECURSIVE userVectorLoop(_, _, _, _, _)
userVectorLoop(m, cm, visit, k, acc) ==
    IF k > Len(visit) THEN acc
    ELSE LET doc == visit[k]
         IN  IF doc \notin DOMAIN m.docIndexes
             THEN userVectorLoop(m, cm, visit, k + 1, acc)
             ELSE userVectorLoop(m, cm, visit, k + 1,
                    accumulate(acc, cm[doc], m.itemFactorsY[m.docIndexes[doc]]))

Factorize(A) == \A k \in 1 .. Len(A) : Det(Leading(A, k)) > 0

SolveVec(A, b) ==
    [num |-> [k \in 1 .. Len(A) |-> Det(ReplaceCol(A, k, b))], den |-> Det(A)]

userVector(m, cm, visit) ==
    LET acc == userVectorLoop(m, cm, visit, 1,
                  [A |-> MatAdd(m.squaredItemFactorsYtY,
                                eye(m.nFactors, m.regularization)),
                   b |-> [k \in 1 .. m.nFactors |-> 0]])
    IN  IF ~Factorize(acc.A)
        THEN [A |-> acc.A, b |-> acc.b, err |-> ErrCholesky,
              x |-> [num |-> << >>, den |-> 1]]
        ELSE [A |-> acc.A, b |-> acc.b, err |-> Nil, x |-> SolveVec(acc.A, acc.b)]

scoresForUserVec(m, userVec) ==
    [r \in 1 .. Len(m.itemFactorsY) |->
        Rat(Dot(m.itemFactorsY[r], userVec.num), userVec.den)]

(***************************************************************************)
(* Scoring and ordering.  sort.Sort is not stable: every arrangement of    *)
(* the slice that its Less leaves in order is a possible outcome.          *)
(***************************************************************************)
MinusOne == Rat(-1, 1)

Zero == Rat(0, 1)

\* Mutant: the unknown-item test comes before the seen test.
candidateScoreUnknownFirst(m, seen, scoresVec, doc) ==
    IF doc \notin DOMAIN m.docIndexes THEN Zero
    ELSE IF doc \in seen THEN MinusOne
    ELSE scoresVec[m.docIndexes[doc]]

candidateScore(m, seen, scoresVec, doc) ==
    IF doc \in seen THEN MinusOne
    ELSE IF doc \notin DOMAIN m.docIndexes THEN Zero
    ELSE scoresVec[m.docIndexes[doc]]

Less(a, b) == RatLess(b.Score, a.Score)

SortOutcomes(cs) ==
    {s \in {[i \in 1 .. Len(cs) |-> cs[p[i]]] : p \in Orders(1 .. Len(cs))} :
        \A i, j \in 1 .. Len(s) : i < j => ~Less(s[j], s[i])}

\* Mutant: the sort runs on the caller's slice itself.
sortedSliceInPlace(cands, sorted) == [i \in 1 .. Len(sorted) |-> sorted[i].DocumentID]

sortedSlice(cands, sorted) == cands

scoreCandidates(m, cands, seen, visit) ==
    LET cm == confidenceMap(m, seen)
    IN  IF DOMAIN cm = {}
        THEN {[recommendations |-> NoSlice, err |-> ErrNoSeenDoc, uv |-> NoVec,
               candidates |-> cands]}
        ELSE LET u == userVector(m, cm, visit)
             IN  IF u.err # Nil
                 THEN {[recommendations |-> NoSlice, err |-> u.err, uv |-> u,
                        candidates |-> cands]}
                 ELSE LET scoresVec == scoresForUserVec(m, u.x)
                          candidateScores ==
                              [i \in 1 .. Len(cands) |->
                                  [DocumentID |-> cands[i],
                                   Score |-> candidateScore(m, seen, scoresVec, cands[i])]]
                      IN  {[recommendations |-> sorted, err |-> Nil, uv |-> u,
                            candidates |-> sortedSlice(cands, sorted)] :
                              sorted \in SortOutcomes(candidateScores)}

\* Mutant: the reordered IDs are not written back.
writeBackSkipped(cands, candidateScores) == cands

writeBack(cands, candidateScores) ==
    [i \in 1 .. Len(cands) |->
        IF i <= Len(candidateScores) THEN candidateScores[i].DocumentID ELSE cands[i]]

Rank(m, cands, seen, visit) ==
    {IF r.err # Nil
     THEN [scores |-> NoSlice, err |-> r.err, uv |-> r.uv, candidates |-> r.candidates]
     ELSE [scores |-> [i \in 1 .. Len(r.recommendations) |-> r.recommendations[i].Score],
           err |-> Nil, uv |-> r.uv,
           candidates |-> writeBack(r.candidates, r.recommendations)] :
        r \in scoreCandidates(m, cands, seen, visit)}

\* Mutant: the cut keeps one pair too many.
truncateOffByOne(recs, k) ==
    IF Len(recs) > k
    THEN IF k < 0 THEN [panic |-> TRUE, recs |-> NoSlice]
         ELSE [panic |-> FALSE, recs |-> SubSeq(recs, 1, k + 1)]
    ELSE [panic |-> FALSE, recs |-> recs]

truncate(recs, k) ==
    IF Len(recs) > k
    THEN IF k < 0 THEN [panic |-> TRUE, recs |-> NoSlice]
         ELSE [panic |-> FALSE, recs |-> SubSeq(recs, 1, k)]
    ELSE [panic |-> FALSE, recs |-> recs]

Recommend(m, seen, k, visit) ==
    {IF r.err # Nil
     THEN [recommendations |-> NoSlice, err |-> r.err, uv |-> r.uv,
           docIDs |-> r.candidates]
     ELSE LET t == truncate(r.recommendations, k)
          IN  IF t.panic
              THEN [recommendations |-> NoSlice, err |-> ErrSliceBounds, uv |-> r.uv,
                    docIDs |-> r.candidates]
              ELSE [recommendations |-> t.recs, err |-> Nil, uv |-> r.uv,
                    docIDs |-> r.candidates] :
        r \in scoreCandidates(m, m.docIDs, seen, visit)}

(***************************************************************************)
(* The state machine: a caller constructs a model, then issues requests    *)
(* one after another.  pc = "done" holds the outcome of the last request   *)
(* until the caller drops it.                                              *)
(***************************************************************************)
Inputs ==
    /\ documents \in UNION {[S -> Vectors] : S \in SUBSET DocIDs \ {{}}}
    /\ order \in Orders(DOMAIN documents)
    /\ confidence \in Confidences
    /\ regularization \in Regularizations

NoRequest ==
    /\ op = Nil /\ seenDocs = {} /\ n = 0 /\ candidatesIn = NoSlice
    /\ candidates = NoSlice /\ scores = NoSlice /\ recommendations = NoSlice
    /\ uv = NoVec /\ confidenceMapIn = << >>
    /\ recommendationsB = NoSlice /\ errB = Nil

Init ==
    /\ Inputs
    /\ orderB = order
    /\ pc = "new"
    /\ vm = NoModel
    /\ vmB = NoModel
    /\ err = Nil
    /\ NoRequest

Construct ==
    /\ pc = "new"
    /\ LET r == NewVectorModel(documents, order, confidence, regularization)
       IN  /\ vm' = r.vm
           /\ err' = r.err
           /\ pc' = IF r.err = Nil THEN "idle" ELSE "failed"
    /\ UNCHANGED <<inputs, second, op, seenDocs, n, candidatesIn, candidates,
                   scores, recommendations, uv, confidenceMapIn>>

CallRank ==
    /\ pc = "idle"
    /\ \E seen \in SUBSET DocIDs :
         \E visit \in Orders(DOMAIN confidenceMap(vm, seen)) :
           \E cands \in CandidateLists :
             \E r \in Rank(vm, cands, seen, visit) :
                /\ op' = "Rank"
                /\ seenDocs' = seen
                /\ candidatesIn' = cands
                /\ candidates' = r.candidates
                /\ scores' = r.scores
                /\ err' = r.err
                /\ uv' = r.uv
    /\ pc' = "done"
    /\ UNCHANGED <<inputs, second, vm, n, recommendations, confidenceMapIn>>

CallRecommend ==
    /\ pc = "idle"
    /\ \E seen \in SUBSET DocIDs :
         \E visit \in Orders(DOMAIN confidenceMap(vm, seen)) :
           \E k \in Ns :
             \E r \in Recommend(vm, seen, k, visit) :
                /\ op' = "Recommend"
                /\ seenDocs' = seen
                /\ n' = k
                /\ recommendations' = r.recommendations
                /\ err' = r.err
                /\ uv' = r.uv
                /\ vm' = [vm EXCEPT !.docIDs = r.docIDs]
                /\ pc' = IF r.err = ErrSliceBounds THEN "panic" ELSE "done"
    /\ UNCHANGED <<inputs, second, candidatesIn, candidates, scores,
                   confidenceMapIn>>

CallUserVector ==
    /\ pc = "idle"
    /\ \E cm \in UNION {[S -> Confidences] : S \in SUBSET DocIDs} :
         \E visit \in Orders(DOMAIN cm) :
            LET u == userVector(vm, cm, visit)
            IN  /\ op' = "userVector"
                /\ confidenceMapIn' = cm
                /\ uv' = u
                /\ err' = u.err
    /\ pc' = "done"
    /\ UNCHANGED <<inputs, second, vm, seenDocs, n, candidatesIn, candidates,
                   scores, recommendations>>

Return ==
    /\ pc = "done"
    /\ pc' = "idle"
    /\ op' = Nil /\ seenDocs' = {} /\ n' = 0 /\ candidatesIn' = NoSlice
    /\ candidates' = NoSlice /\ scores' = NoSlice /\ recommendations' = NoSlice
    /\ uv' = NoVec /\ confidenceMapIn' = << >>
    /\ recommendationsB' = NoSlice /\ errB' = Nil
    /\ err' = Nil
    /\ UNCHANGED <<inputs, vm, vmB>>

Next == Construct \/ CallRank \/ CallRecommend \/ CallUserVector \/ Return

Spec == Init /\ [][Next]_vars

(***************************************************************************)
(* Two models built from one mapping under two iteration orders (the       *)
(* second the reverse or a rotation of the first), asked the same          *)
(* Recommend request.  The second model walks its confidence map in the    *)
(* opposite order.                                                         *)
(***************************************************************************)
Reverse(s) == [i \in 1 .. Len(s) |-> s[Len(s) + 1 - i]]

Rotate(s) == Tail(s) \o <<Head(s)>>

InitPair ==
    /\ Inputs
    /\ orderB \in {Reverse(order), Rotate(order)}
    /\ pc = "new"
    /\ vm = NoModel
    /\ vmB = NoModel
    /\ err = Nil
    /\ NoRequest

ConstructPair ==
    /\ pc = "new"
    /\ LET r == NewVectorModel(documents, order, confidence, regularization)
           rB == NewVectorModel(documents, orderB, confidence, regularization)
       IN  /\ vm' = r.vm
           /\ vmB' = rB.vm
           /\ err' = r.err
           /\ errB' = rB.err
           /\ pc' = IF r.err = Nil /\ rB.err = Nil THEN "idle" ELSE "failed"
    /\ UNCHANGED <<inputs, op, seenDocs, n, candidatesIn, candidates, scores,
                   recommendations, uv, confidenceMapIn, recommendationsB>>

RecommendPair ==
    /\ pc = "idle"
    /\ \E seen \in SUBSET DocIDs :
         \E visit \in Orders(DOMAIN confidenceMap(vm, seen)) :
           \E k \in Ns :
             \E r \in Recommend(vm, seen, k, visit) :
               \E rB \in Recommend(vmB, seen, k, Reverse(visit)) :
                    /\ op' = "Recommend"
                    /\ seenDocs' = seen
                    /\ n' = k
                    /\ recommendations' = r.recommendations
                    /\ recommendationsB' = rB.recommendations
                    /\ err' = r.err
                    /\ errB' = rB.err
                    /\ uv' = r.uv
                    /\ vm' = [vm EXCEPT !.docIDs = r.docIDs]
                    /\ vmB' = [vmB EXCEPT !.docIDs = rB.docIDs]
                    /\ pc' = IF r.err = ErrSliceBounds \/ rB.err = ErrSliceBounds
                             THEN "panic" ELSE "done"
    /\ UNCHANGED <<inputs, candidatesIn, candidates, scores, confidenceMapIn>>

NextPair == ConstructPair \/ RecommendPair \/ Return

SpecPair == InitPair /\ [][NextPair]_vars

(***************************************************************************)
(* Notions shared by the properties below.                                 *)
(***************************************************************************)
Succeeded == pc = "done" /\ err = Nil

Ranked == Succeeded /\ op = "Rank"

Recommended == Succeeded /\ op = "Recommend"

ModelDocs == DOMAIN vm.docIndexes

\* The ordered (item, score) output of the last Rank or Recommend.
Out ==
    IF op = "Rank"
    THEN [i \in 1 .. Len(candidates) |->
            [DocumentID |-> candidates[i], Score |-> scores[i]]]
    ELSE recommendations

RowOf(d) == CHOOSE r \in 1 .. Len(vm.docIDs) : vm.docIDs[r] = d

\* s is the value of Y[row of d] . x for the solved user vector x = uv.x.
IsDotProduct(s, d) ==
    s.num * uv.x.den =
        s.den * SumSeq([k \in 1 .. vm.nFactors |->
                          vm.itemFactorsY[RowOf(d)][k] * uv.x.num[k]])

IsPolicyScore(s, d) ==
    IF d \in seenDocs THEN s.num = -1 /\ s.den = 1
    ELSE IF d \notin ModelDocs THEN s.num = 0 /\ s.den = 1
    ELSE IsDotProduct(s, d)

Count(seq, d) == Cardinality({i \in DOMAIN seq : seq[i] = d})

Min(a, b) == IF a < b THEN a ELSE b

RECURSIVE SetSum(_, _)
SetSum(S, val) ==
    IF S = {} THEN 0
    ELSE LET d == CHOOSE e \in S : TRUE IN val[d] + SetSum(S \ {d}, val)

\* C1: after a successful Rank or Recommend every output score follows the
\* policy in this order: -1 for a seen candidate (even one unknown to the
\* model), else 0 for a candidate unknown to the model, else the dot product
\* of the candidate's row of Y with the solved user vector.
C1_ScorePolicy ==
    (Succeeded /\ op \in {"Rank", "Recommend"}) =>
        \A i \in DOMAIN Out : IsPolicyScore(Out[i].Score, Out[i].DocumentID)

\* C1 witness: a successful Rank scored a candidate that is seen and also
\* unknown to the model.
C1_Witness ==
    /\ Ranked
    /\ \E i \in DOMAIN Out :
          /\ Out[i].DocumentID \in seenDocs \ ModelDocs
          /\ Out[i].Score = MinusOne

Category(d) ==
    IF d \in seenDocs THEN 2 ELSE IF d \notin ModelDocs THEN 1 ELSE 0

\* C2: in the ordered output of a successful Rank or Recommend the order is:
\* unseen candidates that are in the model, then candidates unknown to the
\* model, then seen candidates; in particular every unseen model item
\* precedes every seen one.
C2_SeenLast ==
    (Succeeded /\ op \in {"Rank", "Recommend"}) =>
        \A i, j \in DOMAIN Out :
            i < j => Category(Out[i].DocumentID) <= Category(Out[j].DocumentID)

AllModelScores ==
    LET scoresVec == scoresForUserVec(vm, uv.x)
    IN  [d \in ModelDocs |-> candidateScore(vm, seenDocs, scoresVec, d)]

RecommendResultOK ==
    /\ Len(recommendations) = Min(n, Cardinality(ModelDocs))
    /\ \A i \in DOMAIN recommendations : recommendations[i].DocumentID \in ModelDocs
    /\ \A i, j \in DOMAIN recommendations :
          i # j => recommendations[i].DocumentID # recommendations[j].DocumentID
    /\ \A i, j \in DOMAIN recommendations :
          i < j => RatLeq(recommendations[j].Score, recommendations[i].Score)
    /\ \A d \in ModelDocs :
          (\A i \in DOMAIN recommendations : recommendations[i].DocumentID # d) =>
              \A i \in DOMAIN recommendations :
                  RatLeq(AllModelScores[d], recommendations[i].Score)
    /\ n >= Cardinality(ModelDocs) =>
          \A d \in ModelDocs : Count([i \in DOMAIN recommendations |->
                                        recommendations[i].DocumentID], d) = 1

\* C3 as stated: every Recommend with n >= 0 and a seen set holding at least
\* one model item returns exactly min(n, N) pairs with the listed properties.
C3_Original ==
    (pc = "done" /\ op = "Recommend" /\ n >= 0 /\ seenDocs \cap ModelDocs # {}) =>
        (err = Nil /\ RecommendResultOK)

\* C3 amended: every Recommend with n >= 0 that returns no error (the seen set
\* holds a model item and the Cholesky factorization succeeds) returns exactly
\* min(n, N) pairs with distinct model items, in non-increasing score order,
\* no left-out item scoring above a returned one, and all items when n >= N.
C3_RecommendTopN ==
    (Recommended /\ n >= 0) =>
        (seenDocs \cap ModelDocs # {} /\ RecommendResultOK)

\* C3 witness: a Recommend cut a two-item result down to one.
C3_Witness ==
    /\ Recommended
    /\ n = 1
    /\ Cardinality(ModelDocs) = 2
    /\ Len(recommendations) = 1

\* C4: a successful Rank leaves the candidate list a permutation of its
\* input, returns one score per candidate, scores[i] being the policy score
\* of the item now at candidates[i], and the scores never increase.
C4_RankPermutation ==
    Ranked =>
        /\ Len(candidates) = Len(candidatesIn)
        /\ \A d \in DocIDs : Count(candidates, d) = Count(candidatesIn, d)
        /\ Len(scores) = Len(candidates)
        /\ \A i \in DOMAIN scores : IsPolicyScore(scores[i], candidates[i])
        /\ \A i, j \in DOMAIN scores : i < j => RatLeq(scores[j], scores[i])

\* C4 witness: a successful Rank reordered a list that holds an item unknown
\* to the model and a seen item.
C4_Witness ==
    /\ Ranked
    /\ candidates # candidatesIn
    /\ \E i \in DOMAIN candidates : candidates[i] \notin ModelDocs
    /\ \E i \in DOMAIN candidates : candidates[i] \in seenDocs

\* C5: Rank and Recommend fail with the no-seen-doc error exactly when no
\* seen item is in the model; with that error nothing is returned and Rank
\* leaves the candidate list as it was.
C5_InsufficientHistory ==
    (pc \in {"done", "panic"} /\ op \in {"Rank", "Recommend"}) =>
        /\ (err = ErrNoSeenDoc) <=> (seenDocs \cap ModelDocs = {})
        /\ err = ErrNoSeenDoc =>
              /\ recommendations = NoSlice
              /\ scores = NoSlice
              /\ candidates = candidatesIn

\* C5 witness: a request whose seen set holds an item unknown to the model
\* and an item of the model succeeded.
C5_Witness ==
    /\ Succeeded
    /\ op \in {"Rank", "Recommend"}
    /\ seenDocs \ ModelDocs # {}
    /\ seenDocs \cap ModelDocs # {}

\* C5 second witness: a Rank over a non-empty list failed for want of history.
C5_ErrorWitness ==
    /\ pc = "done" /\ op = "Rank" /\ err = ErrNoSeenDoc
    /\ seenDocs # {} /\ Len(candidatesIn) = 2

Lengths == {Len(documents[d]) : d \in DOMAIN documents}

\* C6: NewVectorModel fails, returning no model, whenever two input vectors
\* differ in length, whatever the iteration order; when all vectors have one
\* length f it succeeds with nFactors = f.
C6_InvalidDimension ==
    pc # "new" =>
        IF Cardinality(Lengths) > 1
        THEN pc = "failed" /\ err = ErrInvalidVectorSize /\ vm = NoModel
        ELSE pc # "failed" /\ \A f \in Lengths : vm.nFactors = f

\* C6 witness: construction failed on an input whose first visited vector is
\* the longer one.
C6_Witness ==
    /\ pc = "failed"
    /\ Len(order) = 2
    /\ Len(documents[order[1]]) > Len(documents[order[2]])

EntriesInModel == DOMAIN confidenceMapIn \cap ModelDocs

FactorOf(d) == vm.itemFactorsY[RowOf(d)]

AssembledOK ==
    /\ \A i, j \in 1 .. vm.nFactors :
          uv.A[i][j] =
              vm.squaredItemFactorsYtY[i][j]
              + (IF i = j THEN vm.regularization ELSE 0)
              + SetSum(EntriesInModel,
                       [d \in EntriesInModel |->
                           (confidenceMapIn[d] - 1) * FactorOf(d)[i] * FactorOf(d)[j]])
    /\ \A i \in 1 .. vm.nFactors :
          uv.b[i] = SetSum(EntriesInModel,
                           [d \in EntriesInModel |-> confidenceMapIn[d] * FactorOf(d)[i]])

SolvedOK ==
    /\ Len(uv.x.num) = vm.nFactors
    /\ \A i \in 1 .. vm.nFactors :
          SumSeq([j \in 1 .. vm.nFactors |-> uv.A[i][j] * uv.x.num[j]])
              = uv.b[i] * uv.x.den

\* C8 as stated: for any confidence map userVector assembles A and b by the
\* closed form and returns x of length nFactors with A*x = b.
C8_Original ==
    (pc = "done" /\ op = "userVector") => (AssembledOK /\ SolvedOK)

\* C8 amended: for any confidence map and any visiting order userVector
\* assembles A and b by the closed form (entries outside the model adding
\* nothing), and whenever the Cholesky factorization of A succeeds the
\* returned x has length nFactors and satisfies A*x = b; otherwise it returns
\* an error and an empty vector.
C8_UserVector ==
    (pc = "done" /\ op = "userVector") =>
        /\ AssembledOK
        /\ err = Nil => SolvedOK
        /\ err # Nil => err = ErrCholesky /\ Len(uv.x.num) = 0

\* C8 witness: userVector solved for a map with one entry in the model,
\* weighted above 1, and one entry outside it.
C8_Witness ==
    /\ Succeeded /\ op = "userVector"
    /\ DOMAIN confidenceMapIn \ ModelDocs # {}
    /\ \E d \in EntriesInModel : confidenceMapIn[d] > 1

ScoresOf(recs) == [i \in DOMAIN recs |-> recs[i].Score]

\* C9 as stated: two models built from one mapping with different row-index
\* assignments return the same ordered list from the same Recommend.
C9_Original ==
    (pc = "done" /\ op = "Recommend" /\ order # orderB) =>
        (err = errB /\ recommendations = recommendationsB)

\* C9 amended: in exact arithmetic the two models return the same error or
\* the same sequence of scores, every item gets the same score in both, and
\* the two lists are equal whenever no two model items have equal scores;
\* the order among items of equal score depends on the row assignment.
C9_RowOrderInsignificant ==
    (pc = "done" /\ op = "Recommend") =>
        /\ err = errB
        /\ ScoresOf(recommendations) = ScoresOf(recommendationsB)
        /\ err = Nil =>
              /\ \A i \in DOMAIN recommendations :
                    recommendations[i].Score
                        = AllModelScores[recommendations[i].DocumentID]
              /\ \A i \in DOMAIN recommendationsB :
                    recommendationsB[i].Score
                        = AllModelScores[recommendationsB[i].DocumentID]
              /\ (\A d, e \in ModelDocs : d # e => AllModelScores[d] # AllModelScores[e])
                    => recommendations = recommendationsB

\* C9 witness: two models with different row assignments answered the same
\* Recommend over two items of different scores.
C9_Witness ==
    /\ Recommended
    /\ order # orderB
    /\ Len(recommendations) = 2
    /\ recommendations[1].Score # recommendations[2].Score
    /\ recommendations = recommendationsB

\* C10: a Recommend call completes, for every integer n, by returning a list
\* or an error; it never aborts with a runtime failure.
C10_NoAbort == pc # "panic"

====
